---- MODULE Spec2Model ----
(***************************************************************************)
(* Model of staking.go: the storage-layout encoder that predeploys the     *)
(* staking smart contract (getAddressMapping, getIndexWithOffset,          *)
(* getStorageIndexes, setBytesToStorage, PredeployStakingSC).              *)
(*                                                                         *)
(* Byte strings ([]byte) are sequences over 0..255, big-endian.  A         *)
(* *big.Int is a record [neg, abs]: a sign and the minimal big-endian      *)
(* magnitude, which is what big.Int.Bytes() returns.  A uint64 is its      *)
(* magnitude (at most 8 bytes, no leading zero); an int64 is a [neg, abs]  *)
(* record like a big.Int.  Integers of the program that stay small (loop   *)
(* indexes, lengths, slot numbers) are TLA+ integers.                      *)
(***************************************************************************)
EXTENDS Integers, Sequences, FiniteSets, TLC

\* ------------------------------------------------------------------------
\* Bounds of the model
\* ------------------------------------------------------------------------

\* longest validator list drawn
MaxVals == 2
\* number of consecutive setBytesToStorage calls with the same arguments
MaxCalls == 2
\* number of consecutive offsets tried after the starting offset
MaxSteps == 2

\* ------------------------------------------------------------------------
\* Byte strings and magnitudes
\* ------------------------------------------------------------------------

\* values of one byte: 0 .. ByteMod-1
ByteMod == 256

\* types.HashLength, the length of a types.Hash
HashLength == 32

\* types.AddressLength, the length of a types.Address
AddressLength == 20

Max(a, b) == IF a >= b THEN a ELSE b

Min(a, b) == IF a <= b THEN a ELSE b

\* n zero bytes: make([]byte, n)
Zeros(n) == [i \in 1..n |-> 0]

\* n bytes of value v
Fill(n, v) == [i \in 1..n |-> v]

\* the last n bytes of b: b[len(b)-n:]
Last(b, n) == SubSeq(b, Len(b) - n + 1, Len(b))

\* number of leading zero bytes of b
LeadingZeros(b) ==
    IF \A i \in 1..Len(b) : b[i] = 0 THEN Len(b)
    ELSE (CHOOSE i \in 1..Len(b) : b[i] # 0 /\ \A j \in 1..(i - 1) : b[j] = 0) - 1

\* big.Int.SetBytes / nat.norm: the magnitude b without its leading zero bytes
Trim(b) == SubSeq(b, LeadingZeros(b) + 1, Len(b))

\* b left-padded with zero bytes to n bytes (n >= Len(b))
PadTo(b, n) == Zeros(n - Len(b)) \o b

\* byte string of the non-negative TLA+ integer n, minimal length (0 is <<>>)
RECURSIVE NatBytes(_)
NatBytes(n) ==
    IF n = 0 THEN <<>> ELSE Append(NatBytes(n \div ByteMod), n % ByteMod)

\* nat.cmp: -1, 0, 1 as magnitude a is below, equal to, above magnitude b
\* (both without leading zeros): the longer is the larger, and of two of one
\* length the first byte that differs decides
CmpMag(a, b) ==
    IF Len(a) < Len(b) THEN -1
    ELSE IF Len(a) > Len(b) THEN 1
    ELSE IF a = b THEN 0
    ELSE LET d == CHOOSE i \in 1..Len(a) :
                    a[i] # b[i] /\ \A j \in 1..(i - 1) : a[j] = b[j]
         IN  IF a[d] < b[d] THEN -1 ELSE 1

\* the carry into byte j of the sum of A and B (of one length n): the nearest
\* byte to the right of j whose sum is not 255 decides it
CarryInto(A, B, j, n) ==
    IF \E p \in (j + 1)..n :
            A[p] + B[p] >= ByteMod /\ \A q \in (j + 1)..(p - 1) : A[q] + B[q] = ByteMod - 1
    THEN 1 ELSE 0

\* nat.add: the sum of two magnitudes
AddMag(a, b) ==
    LET n == Max(Len(a), Len(b)) + 1
        A == PadTo(a, n)
        B == PadTo(b, n)
    IN  Trim([j \in 1..n |-> (A[j] + B[j] + CarryInto(A, B, j, n)) % ByteMod])

\* the borrow from byte j of the difference of A and B (of one length n): the
\* nearest byte to the right of j where A and B differ decides it
BorrowFrom(A, B, j, n) ==
    IF \E p \in (j + 1)..n :
            A[p] < B[p] /\ \A q \in (j + 1)..(p - 1) : A[q] = B[q]
    THEN 1 ELSE 0

\* nat.sub: the difference a - b of two magnitudes, a >= b
SubMag(a, b) ==
    LET n == Len(a)
        B == PadTo(b, n)
    IN  Trim([j \in 1..n |-> (a[j] - B[j] - BorrowFrom(a, B, j, n) + ByteMod) % ByteMod])

\* ------------------------------------------------------------------------
\* math/big and the integer conversions of Go
\* ------------------------------------------------------------------------

\* 2^63 and 2^64 as magnitudes
TwoPow63 == <<128>> \o Zeros(7)

TwoPow64 == <<1>> \o Zeros(8)

\* int64(u) for a uint64 u: values from 2^63 up wrap to u - 2^64
Int64OfUint64(u) ==
    IF CmpMag(u, TwoPow63) >= 0
    THEN [neg |-> TRUE, abs |-> SubMag(TwoPow64, u)]
    ELSE [neg |-> FALSE, abs |-> u]

\* int64(n) for a small Go int n
Int64OfInt(n) ==
    IF n < 0 THEN [neg |-> TRUE, abs |-> NatBytes(-n)]
    ELSE [neg |-> FALSE, abs |-> NatBytes(n)]

\* uint64(n) for a small non-negative Go int n
Uint64OfInt(n) == NatBytes(n)

\* big.NewInt(x) for an int64 x: the same number
NewInt(x) == [neg |-> x.neg, abs |-> x.abs]

\* big.Int.SetBytes(b): b read as a big-endian unsigned integer
SetBytes(b) == [neg |-> FALSE, abs |-> Trim(b)]

\* big.Int.Bytes(): the absolute value as minimal big-endian bytes
Bytes(x) == x.abs

\* big.Int.Add(x, y): signed sum (zero is never negative)
Add(x, y) ==
    IF x.neg = y.neg
    THEN [neg |-> x.neg /\ AddMag(x.abs, y.abs) # <<>>, abs |-> AddMag(x.abs, y.abs)]
    ELSE IF CmpMag(x.abs, y.abs) >= 0
    THEN [neg |-> x.neg /\ CmpMag(x.abs, y.abs) > 0, abs |-> SubMag(x.abs, y.abs)]
    ELSE [neg |-> y.neg, abs |-> SubMag(y.abs, x.abs)]

\* ------------------------------------------------------------------------
\* helper/common, types, helper/hex, helper/keccak
\* ------------------------------------------------------------------------

\* common.PadLeftOrTrim(bb, size)
PadLeftOrTrim(bb, size) ==
    IF Len(bb) = size THEN bb
    ELSE IF Len(bb) > size THEN Last(bb, size)
    ELSE PadTo(bb, size)

\* types.BytesToHash(b): the last 32 bytes of b, left-padded with zeros
BytesToHash(b) ==
    LET m == Min(Len(b), HashLength)
    IN  PadTo(Last(b, m), HashLength)

\* types.Hash{}
ZeroHash == Zeros(HashLength)

\* types.StringToBytes / hex.DecodeString.  A hex string is modelled as the
\* sequence of its digits' values (0..15) after the "0x" prefix, which
\* StringToBytes strips: an odd number of digits gets a leading "0", then each
\* pair of digits is one byte.
StringToBytes(str) ==
    LET even == IF Len(str) % 2 = 1 THEN <<0>> \o str ELSE str
    IN  [i \in 1..(Len(even) \div 2) |-> 16 * even[2 * i - 1] + even[2 * i]]

\* types.StringToHash(str)
StringToHash(str) == BytesToHash(StringToBytes(str))

\* the hex digits of the bytes b, two per byte
HexOfBytes(b) ==
    [i \in 1..(2 * Len(b)) |->
        IF i % 2 = 1 THEN b[(i + 1) \div 2] \div 16 ELSE b[i \div 2] % 16]

\* hex.EncodeBig(b): "0x" and the digits of |b| without leading zeros ("0x0" for 0)
EncodeBig(b) ==
    LET d == Trim(HexOfBytes(Bytes(b)))
    IN  IF d = <<>> THEN <<0>> ELSE d

\* hex.EncodeUint64(i): "0x" and the digits of i without leading zeros ("0x0" for 0)
EncodeUint64(i) ==
    LET d == Trim(HexOfBytes(i))
    IN  IF d = <<>> THEN <<0>> ELSE d

\* types.ParseUint256orHex(&val) for a "0x"-prefixed string: the number it spells
ParseUint256orHex(str) == SetBytes(StringToBytes(str))

\* keccak.Keccak256 is a library function that TLC cannot evaluate.  It is
\* modelled as a 32-byte digest that is collision-free on the inputs the model
\* draws (KeccakCollisionFree below checks it): every output byte mixes a salt,
\* the input length and the input bytes of its lane.
Salt(i) == (37 * i + 101) % ByteMod

RECURSIVE Lane(_, _, _)
Lane(b, i, blk) ==
    IF blk * HashLength + i > Len(b) THEN 0
    ELSE (2 * blk + 3) * b[blk * HashLength + i] + Lane(b, i, blk + 1)

Keccak256(b) ==
    [i \in 1..HashLength |-> (Salt(i) + Len(b) + Lane(b, i, 0)) % ByteMod]

\* ------------------------------------------------------------------------
\* Slot definitions for SC storage
\* ------------------------------------------------------------------------

validatorsSlot == 0

addressToIsValidatorSlot == 1

addressToStakedAmountSlot == 2

addressToValidatorIndexSlot == 3

stakedAmountSlot == 4

minNumValidatorSlot == 5

maxNumValidatorSlot == 6

addressToBLSPublicKeySlot == 7

\* DefaultStakedBalance = "0x8AC7230489E80000", as its hex digits
DefaultStakedBalance == <<8, 10, 12, 7, 2, 3, 0, 4, 8, 9, 14, 8, 0, 0, 0, 0>>

\* ------------------------------------------------------------------------
\* The encoder
\* ------------------------------------------------------------------------

\* finalSlice of getAddressMapping: the 64 bytes it hashes,
\* pad32(address) . pad32(bigSlot.Bytes())
finalSlice(address, slot) ==
    LET bigSlot == NewInt(Int64OfInt(slot))
    IN  PadLeftOrTrim(address, 32) \o PadLeftOrTrim(Bytes(bigSlot), 32)

\* getAddressMapping with the slot left out of the hashed bytes
getAddressMappingNoSlot(address, slot) ==
    Keccak256(PadLeftOrTrim(address, 32))

\* getAddressMapping(address, slot): keccak(pad32(address) . pad32(slot))
getAddressMapping(address, slot) ==
    Keccak256(finalSlice(address, slot))

\* getIndexWithOffset with the addition left out
getIndexWithOffsetNoAdd(keccakHash, offset) ==
    Bytes(SetBytes(keccakHash))

\* getIndexWithOffset(keccakHash, offset): the bytes of keccakHash + int64(offset)
getIndexWithOffset(keccakHash, offset) ==
    LET bigOffset == NewInt(Int64OfUint64(offset))
        bigKeccak == SetBytes(keccakHash)
    IN  Bytes(Add(bigKeccak, bigOffset))

\* getStorageIndexes(validator, index)
getStorageIndexes(validator, index) ==
    LET address == validator.addr
    IN  [AddressToIsValidatorIndex |->
            getAddressMapping(address, addressToIsValidatorSlot),
         AddressToStakedAmountIndex |->
            getAddressMapping(address, addressToStakedAmountSlot),
         AddressToValidatorIndexIndex |->
            getAddressMapping(address, addressToValidatorIndexSlot),
         ValidatorBLSPublicKeyIndex |->
            getAddressMapping(address, addressToBLSPublicKeySlot),
         ValidatorsIndex |->
            getIndexWithOffset(
                Keccak256(PadLeftOrTrim(Bytes(NewInt(Int64OfInt(validatorsSlot))), 32)),
                Uint64OfInt(index))]

\* storageMap[key] read: a missing key reads as the zero value types.Hash{}
MapGet(m, key) == IF key \in DOMAIN m THEN m[key] ELSE ZeroHash

\* storageMap[key] = value
MapSet(m, key, value) == (key :> value) @@ m

\* make(map[types.Hash]types.Hash)
EmptyMap == <<>>

\* byte(n) for a non-negative Go int n: the low 8 bits
ByteOf(n) == n % ByteMod

\* numBytesInSlot := 256 / 8
numBytesInSlot == 256 \div 8

\* the slot taken fresh instead of read from the map
ReadSlotFresh(m, slotIndex) == ZeroHash

\* slot := storageMap[slotIndex], the slot a byte of the payload is written into
ReadSlot(m, slotIndex) == MapGet(m, slotIndex)

\* the byte added to the slot's byte instead of stored in its place
WriteByteAdd(slot, byteIndex, b) ==
    [slot EXCEPT ![byteIndex + 1] = (@ + b) % ByteMod]

\* slot[byteIndex] = data[i] (byteIndex counted from 0)
WriteByte(slot, byteIndex, b) == [slot EXCEPT ![byteIndex + 1] = b]

\* one iteration of the loop of setBytesToStorage, for byte i (counted from 0)
setBytesStep(m, zeroIndex, data, i) ==
    LET off == i \div numBytesInSlot
        slotIndex == BytesToHash(getIndexWithOffset(zeroIndex, Uint64OfInt(off)))
        byteIndex == i % numBytesInSlot
        slot == WriteByte(ReadSlot(m, slotIndex), byteIndex, data[i + 1])
    IN  MapSet(m, slotIndex, slot)

\* the iterations lo .. hi-1 of the loop, in increasing order of i: the first
\* half, then the second half on its result.  The range is halved, and the
\* map of the first half looked at before the second half starts (the test
\* never fails: the first half wrote a key), only to keep the evaluation of
\* TLC shallow; the iterations run in the order of the for loop.
RECURSIVE setBytesLoop(_, _, _, _, _)
setBytesLoop(m, zeroIndex, data, lo, hi) ==
    IF lo >= hi THEN m
    ELSE IF hi = lo + 1 THEN setBytesStep(m, zeroIndex, data, lo)
    ELSE LET mid == (lo + hi) \div 2
             firstHalf == setBytesLoop(m, zeroIndex, data, lo, mid)
         IN  IF DOMAIN firstHalf # {}
             THEN setBytesLoop(firstHalf, zeroIndex, data, mid, hi)
             ELSE firstHalf

\* the value written at the base index for a payload of 32 bytes or more
LongBaseSlot(dataLen) == [ZeroHash EXCEPT ![32] = ByteOf(2 * dataLen + 1)]

\* the value written at the base index for a payload of at most 31 bytes
ShortBaseSlot(data) ==
    [i \in 1..HashLength |->
        IF i = HashLength THEN ByteOf(Len(data) * 2)
        ELSE IF i <= Len(data) THEN data[i] ELSE 0]

\* setBytesToStorage(storageMap, baseIndexBytes, data): the map afterwards
setBytesToStorage(storageMap, baseIndexBytes, data) ==
    LET dataLen == Len(data)
        baseIndex == BytesToHash(baseIndexBytes)
    IN  IF dataLen <= 31
        THEN MapSet(storageMap, baseIndex, ShortBaseSlot(data))
        ELSE setBytesLoop(
                MapSet(storageMap, baseIndex, LongBaseSlot(dataLen)),
                Keccak256(baseIndexBytes), data, 0, dataLen)

\* ------------------------------------------------------------------------
\* Inputs drawn by the model
\* ------------------------------------------------------------------------

\* 20-byte addresses: 0x11..11 (the address of the end-to-end example),
\* 0x22..22 and 0x00..01
Addr1 == Fill(AddressLength, 17)

Addr2 == Fill(AddressLength, 34)

Addr3 == Zeros(AddressLength - 1) \o <<1>>

Addresses == {Addr1, Addr2, Addr3}

\* a payload of len bytes, all non-zero, that differ from byte to byte
Payload(len, seed) == [i \in 1..len |-> 1 + ((seed + 7 * i) % 255)]

\* a BLS public key (48 bytes, a compressed G1 point)
BLSKey == Payload(48, 3)

\* validators.ECDSAValidator (no BLS key) and validators.BLSValidator
Validators ==
    {[addr |-> a, bls |-> FALSE, key |-> <<>>] : a \in Addresses}
    \cup {[addr |-> a, bls |-> TRUE, key |-> BLSKey] : a \in Addresses}

\* validators.Validators: the nil interface, or a list of at most MaxVals entries
ValidatorLists ==
    {[isNil |-> TRUE, items |-> <<>>]}
    \cup {[isNil |-> FALSE, items |-> s] :
            s \in UNION {[1..n -> Validators] : n \in 0..MaxVals}}

\* uint64 values for MinValidatorCount and MaxValidatorCount: 1, 5,
\* common.MaxSafeJSInt = 2^53 - 1, 2^63 and 2^64 - 1
MinCounts == {<<1>>, TwoPow63}

MaxCounts == {<<5>>, <<31>> \o Fill(6, 255), Fill(8, 255)}

\* PredeployParams
ParamsSet ==
    {[MinValidatorCount |-> a, MaxValidatorCount |-> b] : a \in MinCounts, b \in MaxCounts}

\* base keys of setBytesToStorage: a mapping key (32 bytes) and a short,
\* unpadded key
BaseKeys == {getAddressMapping(Addr1, addressToBLSPublicKeySlot), <<7>>}

\* payload lengths: both sides of the 31/32 boundary, of every slot boundary,
\* and of the lengths whose flag 2*len+1 passes one byte
PayloadLens == {0, 1, 30, 31, 32, 33, 48, 64, 65, 127, 128, 130}

Payloads == {Payload(n, seed) : n \in PayloadLens, seed \in {1, 100}}

\* the data slot k of base key base: keccak(base) + k
DataSlotKey(base, k) ==
    BytesToHash(AddMag(Trim(Keccak256(base)), NatBytes(k)))

\* maps setBytesToStorage may be handed for base key base: the empty map, a map
\* that already holds a longer payload at the same base key, and a map whose
\* base slot and data slots hold 0xAA bytes
InitialMaps(base) ==
    {EmptyMap,
     setBytesToStorage(EmptyMap, base, Payload(70, 9)),
     [k \in {BytesToHash(base)} \cup {DataSlotKey(base, j) : j \in 0..4}
        |-> Fill(HashLength, 170)]}

\* hashes and starting offsets for getIndexWithOffset
Hashes ==
    {ZeroHash, PadTo(<<1>>, HashLength), PadTo(TwoPow63, HashLength),
     Keccak256(ZeroHash), Fill(HashLength, 255)}

MaxUint64 == Fill(8, 255)

StartOffsets ==
    {<<>>, SubMag(TwoPow63, <<2>>), SubMag(MaxUint64, <<2>>)}

\* int64 slot numbers handed to getAddressMapping: the slots of the contract's
\* mappings, 0, a two-byte number and negative numbers
SlotNumbers == {-7, -1, 0, 1, 7, 256}

\* ------------------------------------------------------------------------
\* State
\* ------------------------------------------------------------------------

VARIABLES
    prog,                 \* the function under execution
    pc,                   \* its position
    vals, params,         \* PredeployStakingSC: arguments
    storageMap,           \* the storage map being filled
    stakedAmount, valsLen, bigMinNumValidators, bigMaxNumValidators,
    idx,                  \* loop index of PredeployStakingSC
    account, err,         \* PredeployStakingSC: results
    baseIndexBytes, data, \* setBytesToStorage: arguments
    initialMap,           \* the map setBytesToStorage was first handed
    onceMap,              \* the map after its first call
    calls,                \* number of calls made
    keccakHash, offset,   \* getIndexWithOffset: arguments
    result, prevResult,   \* its result, and its result for offset - 1
    steps,                \* number of offsets tried after the first
    mapAddress, mapSlot,  \* getAddressMapping: arguments of a first call
    mapSlice, mapKey,     \* the bytes it hashed and the key it returned
    otherAddress, otherSlot, \* arguments of a second call
    otherSlice, otherKey  \* the bytes it hashed and the key it returned

vars ==
    <<prog, pc, vals, params, storageMap, stakedAmount, valsLen,
      bigMinNumValidators, bigMaxNumValidators, idx, account, err,
      baseIndexBytes, data, initialMap, onceMap, calls,
      keccakHash, offset, result, prevResult, steps,
      mapAddress, mapSlot, mapSlice, mapKey,
      otherAddress, otherSlot, otherSlice, otherKey>>

predeployVars ==
    <<vals, params, stakedAmount, valsLen, bigMinNumValidators,
      bigMaxNumValidators, idx, account, err>>

bytesVars == <<baseIndexBytes, data, initialMap, onceMap, calls>>

offsetVars == <<keccakHash, offset, result, prevResult, steps>>

mappingVars ==
    <<mapAddress, mapSlot, mapSlice, mapKey,
      otherAddress, otherSlot, otherSlice, otherKey>>

Zero == [neg |-> FALSE, abs |-> <<>>]

NoAccount == [set |-> FALSE, Storage |-> EmptyMap, Balance |-> Zero]

PredeployIdle ==
    /\ vals = [isNil |-> TRUE, items |-> <<>>]
    /\ params = [MinValidatorCount |-> <<>>, MaxValidatorCount |-> <<>>]
    /\ stakedAmount = Zero
    /\ valsLen = Zero
    /\ bigMinNumValidators = Zero
    /\ bigMaxNumValidators = Zero
    /\ idx = 0
    /\ account = NoAccount
    /\ err = "nil"

BytesIdle ==
    /\ baseIndexBytes = <<>>
    /\ data = <<>>
    /\ initialMap = EmptyMap
    /\ onceMap = EmptyMap
    /\ calls = 0

OffsetIdle ==
    /\ keccakHash = ZeroHash
    /\ offset = <<>>
    /\ result = <<>>
    /\ prevResult = <<>>
    /\ steps = 0

MappingIdle ==
    /\ mapAddress = <<>>
    /\ mapSlot = 0
    /\ mapSlice = <<>>
    /\ mapKey = <<>>
    /\ otherAddress = <<>>
    /\ otherSlot = 0
    /\ otherSlice = <<>>
    /\ otherKey = <<>>

\* PredeployStakingSC is entered with its arguments
InitPredeploy ==
    /\ prog = "PredeployStakingSC"
    /\ pc = "start"
    /\ vals \in ValidatorLists
    /\ params \in ParamsSet
    /\ storageMap = EmptyMap
    /\ stakedAmount = Zero
    /\ valsLen = Zero
    /\ bigMinNumValidators = Zero
    /\ bigMaxNumValidators = Zero
    /\ idx = 0
    /\ account = NoAccount
    /\ err = "nil"
    /\ BytesIdle
    /\ OffsetIdle
    /\ MappingIdle

\* setBytesToStorage is about to be called on a map
InitBytes ==
    /\ prog = "setBytesToStorage"
    /\ pc = "call"
    /\ baseIndexBytes \in BaseKeys
    /\ data \in Payloads
    /\ initialMap \in InitialMaps(baseIndexBytes)
    /\ storageMap = initialMap
    /\ onceMap = EmptyMap
    /\ calls = 0
    /\ PredeployIdle
    /\ OffsetIdle
    /\ MappingIdle

\* getIndexWithOffset is about to be called on a hash and a first offset
InitOffset ==
    /\ prog = "getIndexWithOffset"
    /\ pc = "call"
    /\ keccakHash \in Hashes
    /\ offset \in StartOffsets
    /\ result = <<>>
    /\ prevResult = <<>>
    /\ steps = 0
    /\ storageMap = EmptyMap
    /\ PredeployIdle
    /\ BytesIdle
    /\ MappingIdle

\* getAddressMapping is about to be called twice
InitMapping ==
    /\ prog = "getAddressMapping"
    /\ pc = "call"
    /\ storageMap = EmptyMap
    /\ PredeployIdle
    /\ BytesIdle
    /\ OffsetIdle
    /\ MappingIdle

Init == InitPredeploy \/ InitBytes \/ InitOffset \/ InitMapping

\* ------------------------------------------------------------------------
\* PredeployStakingSC
\* ------------------------------------------------------------------------

\* whether types.ParseUint256orHex fails on the string: a character that is
\* no hex digit
ParseFails(str) == \E i \in 1..Len(str) : str[i] \notin 0..15

\* bigDefaultStakedBalance
bigDefaultStakedBalance == ParseUint256orHex(DefaultStakedBalance)

\* bigTrueValue := big.NewInt(1)
bigTrueValue == NewInt(Int64OfInt(1))

\* vals.Len()
ValsLen(v) == Len(v.items)

\* the staked amount set to the default balance instead of raised by it
NextStakedAmountSet(amount) == bigDefaultStakedBalance

\* stakedAmount = stakedAmount.Add(stakedAmount, bigDefaultStakedBalance)
NextStakedAmount(amount) == Add(amount, bigDefaultStakedBalance)

\* the storage map after the writes of one loop iteration for the validator
\* at position index
LoopBody(m, validator, index) ==
    LET storageIndexes == getStorageIndexes(validator, index)
        m1 == MapSet(m, BytesToHash(storageIndexes.ValidatorsIndex),
                     BytesToHash(validator.addr))
        m2 == IF validator.bls
              THEN setBytesToStorage(m1, storageIndexes.ValidatorBLSPublicKeyIndex,
                                     validator.key)
              ELSE m1
        m3 == MapSet(m2, BytesToHash(storageIndexes.AddressToIsValidatorIndex),
                     BytesToHash(Bytes(bigTrueValue)))
        m4 == MapSet(m3, BytesToHash(storageIndexes.AddressToStakedAmountIndex),
                     StringToHash(EncodeBig(bigDefaultStakedBalance)))
    IN  MapSet(m4, BytesToHash(storageIndexes.AddressToValidatorIndexIndex),
               StringToHash(EncodeUint64(Uint64OfInt(index))))

\* the scalar slots written with the size of the validators array left out
\* when the array is empty
FinalSlotsSkipEmpty(m, amount, len, minNum, maxNum) ==
    LET m1 == MapSet(m, BytesToHash(Bytes(NewInt(Int64OfInt(stakedAmountSlot)))),
                     BytesToHash(Bytes(amount)))
        m2 == IF Bytes(len) = <<>> THEN m1
              ELSE MapSet(m1, BytesToHash(Bytes(NewInt(Int64OfInt(validatorsSlot)))),
                          BytesToHash(Bytes(len)))
        m3 == MapSet(m2, BytesToHash(Bytes(NewInt(Int64OfInt(minNumValidatorSlot)))),
                     BytesToHash(Bytes(minNum)))
    IN  MapSet(m3, BytesToHash(Bytes(NewInt(Int64OfInt(maxNumValidatorSlot)))),
               BytesToHash(Bytes(maxNum)))

\* the storage map after the four scalar slots are written
FinalSlots(m, amount, len, minNum, maxNum) ==
    LET m1 == MapSet(m, BytesToHash(Bytes(NewInt(Int64OfInt(stakedAmountSlot)))),
                     BytesToHash(Bytes(amount)))
        m2 == MapSet(m1, BytesToHash(Bytes(NewInt(Int64OfInt(validatorsSlot)))),
                     BytesToHash(Bytes(len)))
        m3 == MapSet(m2, BytesToHash(Bytes(NewInt(Int64OfInt(minNumValidatorSlot)))),
                     BytesToHash(Bytes(minNum)))
    IN  MapSet(m3, BytesToHash(Bytes(NewInt(Int64OfInt(maxNumValidatorSlot)))),
               BytesToHash(Bytes(maxNum)))

\* entry of PredeployStakingSC up to the loop: the default staked balance is
\* parsed and the locals are set
PredeployStart ==
    /\ prog = "PredeployStakingSC"
    /\ pc = "start"
    /\ IF ParseFails(DefaultStakedBalance)
       THEN /\ pc' = "done"
            /\ err' = "unable to generate DefaultStatkedBalance"
            /\ account' = NoAccount
            /\ UNCHANGED <<storageMap, stakedAmount, valsLen,
                           bigMinNumValidators, bigMaxNumValidators, idx>>
       ELSE /\ pc' = "loop"
            /\ storageMap' = EmptyMap
            /\ stakedAmount' = NewInt(Int64OfInt(0))
            /\ bigMinNumValidators' = NewInt(Int64OfUint64(params.MinValidatorCount))
            /\ bigMaxNumValidators' = NewInt(Int64OfUint64(params.MaxValidatorCount))
            /\ valsLen' = IF vals.isNil THEN NewInt(Int64OfInt(0))
                          ELSE NewInt(Int64OfInt(ValsLen(vals)))
            /\ idx' = 0
            /\ UNCHANGED <<account, err>>
    /\ UNCHANGED <<prog, vals, params>>
    /\ UNCHANGED bytesVars
    /\ UNCHANGED offsetVars
    /\ UNCHANGED mappingVars

\* one iteration of the loop over the validators
PredeployLoop ==
    /\ prog = "PredeployStakingSC"
    /\ pc = "loop"
    /\ ~vals.isNil
    /\ idx < ValsLen(vals)
    /\ stakedAmount' = NextStakedAmount(stakedAmount)
    /\ storageMap' = LoopBody(storageMap, vals.items[idx + 1], idx)
    /\ idx' = idx + 1
    /\ UNCHANGED <<prog, pc, vals, params, valsLen, bigMinNumValidators,
                   bigMaxNumValidators, account, err>>
    /\ UNCHANGED bytesVars
    /\ UNCHANGED offsetVars
    /\ UNCHANGED mappingVars

\* after the loop: the scalar slots are written and the account is returned
PredeployFinish ==
    /\ prog = "PredeployStakingSC"
    /\ pc = "loop"
    /\ vals.isNil \/ idx >= ValsLen(vals)
    /\ storageMap' = FinalSlots(storageMap, stakedAmount, valsLen,
                                bigMinNumValidators, bigMaxNumValidators)
    /\ account' = [set |-> TRUE, Storage |-> storageMap', Balance |-> stakedAmount]
    /\ err' = "nil"
    /\ pc' = "done"
    /\ UNCHANGED <<prog, vals, params, stakedAmount, valsLen,
                   bigMinNumValidators, bigMaxNumValidators, idx>>
    /\ UNCHANGED bytesVars
    /\ UNCHANGED offsetVars
    /\ UNCHANGED mappingVars

\* ------------------------------------------------------------------------
\* setBytesToStorage and getIndexWithOffset, called on their own
\* ------------------------------------------------------------------------

\* one call of setBytesToStorage(storageMap, baseIndexBytes, data)
SetBytesCall ==
    /\ prog = "setBytesToStorage"
    /\ calls < MaxCalls
    /\ storageMap' = setBytesToStorage(storageMap, baseIndexBytes, data)
    /\ onceMap' = IF calls = 0 THEN storageMap' ELSE onceMap
    /\ calls' = calls + 1
    /\ pc' = "called"
    /\ UNCHANGED <<prog, baseIndexBytes, data, initialMap>>
    /\ UNCHANGED predeployVars
    /\ UNCHANGED offsetVars
    /\ UNCHANGED mappingVars

\* the first call, getIndexWithOffset(keccakHash, offset)
OffsetCall ==
    /\ prog = "getIndexWithOffset"
    /\ pc = "call"
    /\ result' = getIndexWithOffset(keccakHash, offset)
    /\ pc' = "called"
    /\ UNCHANGED <<prog, storageMap, keccakHash, offset, prevResult, steps>>
    /\ UNCHANGED predeployVars
    /\ UNCHANGED bytesVars
    /\ UNCHANGED mappingVars

\* a further call with the next offset, getIndexWithOffset(keccakHash, offset + 1)
OffsetNext ==
    /\ prog = "getIndexWithOffset"
    /\ pc = "called"
    /\ steps < MaxSteps
    /\ CmpMag(offset, MaxUint64) < 0
    /\ offset' = AddMag(offset, <<1>>)
    /\ prevResult' = result
    /\ result' = getIndexWithOffset(keccakHash, offset')
    /\ steps' = steps + 1
    /\ UNCHANGED <<prog, pc, storageMap, keccakHash>>
    /\ UNCHANGED predeployVars
    /\ UNCHANGED bytesVars
    /\ UNCHANGED mappingVars

\* ------------------------------------------------------------------------
\* getAddressMapping, called on its own
\* ------------------------------------------------------------------------

\* a first call, getAddressMapping(address, slot)
MappingCall ==
    /\ prog = "getAddressMapping"
    /\ pc = "call"
    /\ \E a \in Addresses, n \in SlotNumbers :
          /\ mapAddress' = a
          /\ mapSlot' = n
          /\ mapSlice' = finalSlice(a, n)
          /\ mapKey' = getAddressMapping(a, n)
    /\ pc' = "called"
    /\ UNCHANGED <<prog, storageMap, otherAddress, otherSlot, otherSlice, otherKey>>
    /\ UNCHANGED predeployVars
    /\ UNCHANGED bytesVars
    /\ UNCHANGED offsetVars

\* a second call, on an address and a slot of its own
MappingOther ==
    /\ prog = "getAddressMapping"
    /\ pc = "called"
    /\ \E a \in Addresses, n \in SlotNumbers :
          /\ otherAddress' = a
          /\ otherSlot' = n
          /\ otherSlice' = finalSlice(a, n)
          /\ otherKey' = getAddressMapping(a, n)
    /\ pc' = "compared"
    /\ UNCHANGED <<prog, storageMap, mapAddress, mapSlot, mapSlice, mapKey>>
    /\ UNCHANGED predeployVars
    /\ UNCHANGED bytesVars
    /\ UNCHANGED offsetVars

Next ==
    \/ PredeployStart
    \/ PredeployLoop
    \/ PredeployFinish
    \/ SetBytesCall
    \/ OffsetCall
    \/ OffsetNext
    \/ MappingCall
    \/ MappingOther

Spec == Init /\ [][Next]_vars

\* ------------------------------------------------------------------------
\* Properties
\* ------------------------------------------------------------------------

\* n as a 32-byte big-endian integer
Pad32(n) == PadTo(NatBytes(n), HashLength)

\* the bytes of 0x8AC7230489E80000
StakedBalanceBytes == <<138, 199, 35, 4, 137, 232, 0, 0>>

\* the bytes 1..j of n times a, c the carry into byte j, most significant first
RECURSIVE TimesDigits(_, _, _, _)
TimesDigits(a, n, j, c) ==
    IF j = 0 THEN NatBytes(c)
    ELSE Append(TimesDigits(a, n, j - 1, (a[j] * n + c) \div ByteMod),
                (a[j] * n + c) % ByteMod)

\* n times the magnitude a, for a small n
Times(a, n) == Trim(TimesDigits(a, n, Len(a), 0))

\* PredeployStakingSC has returned
Done == prog = "PredeployStakingSC" /\ pc = "done"

\* the number of validators passed
NumVals == IF vals.isNil THEN 0 ELSE Len(vals.items)

\* the value the returned map holds at key, if it holds one
Holds(key, value) ==
    /\ account.set
    /\ key \in DOMAIN account.Storage
    /\ account.Storage[key] = value

\* two entries of the list have one address
HasDuplicate ==
    \E i, j \in 1..NumVals : i < j /\ vals.items[i].addr = vals.items[j].addr

\* setBytesToStorage has returned at least once
Called == prog = "setBytesToStorage" /\ calls >= 1

\* the number of data slots of a payload of len bytes: ceil(len / 32)
NumSlots(len) == (len + 31) \div 32

\* decoding by the slot rule: the flag is the last byte of the base slot; an
\* even flag means flag / 2 bytes inline, an odd flag (flag - 1) / 2 bytes,
\* byte i read from data slot floor(i / 32) at position i mod 32
Decode(m, base) ==
    LET baseSlot == MapGet(m, BytesToHash(base))
        flag == baseSlot[HashLength]
    IN  IF flag % 2 = 0
        THEN SubSeq(baseSlot, 1, flag \div 2)
        ELSE [i \in 1..((flag - 1) \div 2) |->
                MapGet(m, DataSlotKey(base, (i - 1) \div 32))[((i - 1) % 32) + 1]]

\* the content of data slot k of a payload: its bytes 32k .. 32k+31, zero past
\* the end of the payload
ExpectedSlot(payload, k) ==
    [p \in 1..HashLength |->
        IF 32 * k + p <= Len(payload) THEN payload[32 * k + p] ELSE 0]

\* The digest that stands for keccak is collision-free where the model uses
\* it: the storage keys the encoder derives are pairwise distinct.
KeccakCollisionFree ==
    LET scalar == {<<"scalar", n>> : n \in {0, 4, 5, 6}}
        array == {<<"array", i>> : i \in 0..MaxVals}
        mapping == {<<"mapping", a, n>> : a \in Addresses, n \in {1, 2, 3, 7}}
        dataSlot == {<<"data", b, k>> : b \in BaseKeys \cup
                        {getAddressMapping(a, 7) : a \in Addresses}, k \in 0..4}
        KeyOf(t) ==
            CASE t[1] = "scalar" -> Pad32(t[2])
              [] t[1] = "array" -> DataSlotKey(Pad32(0), t[2])
              [] t[1] = "mapping" -> getAddressMapping(t[2], t[3])
              [] t[1] = "data" -> DataSlotKey(t[2], t[3])
        all == scalar \cup array \cup mapping \cup dataSlot
    IN  \A s, t \in all : s # t => KeyOf(s) # KeyOf(t)

\* C1: when PredeployStakingSC has returned for a list of n validators
\* (duplicates allowed), the map holds n * DefaultStakedBalance at key pad32(4)
\* as a 32-byte big-endian integer, and the account Balance is that same number.
C1_TotalStake ==
    Done =>
        /\ Holds(Pad32(4), PadTo(Times(StakedBalanceBytes, NumVals), HashLength))
        /\ account.Balance = [neg |-> FALSE, abs |-> Times(StakedBalanceBytes, NumVals)]

C1_Witness ==
    /\ Done
    /\ NumVals = 2
    /\ HasDuplicate
    /\ account.Balance.abs = Times(StakedBalanceBytes, 2)

\* C2: when PredeployStakingSC has returned for a list of n validators, the
\* map holds n at key pad32(0), and for every index i in 0..n-1 the key
\* keccak(pad32(0)) + i, padded to 32 bytes, holds the address of the validator
\* at position i, padded to 32 bytes.
C2_ValidatorsArray ==
    Done =>
        /\ Holds(Pad32(0), Pad32(NumVals))
        /\ \A i \in 0..(NumVals - 1) :
              Holds(BytesToHash(AddMag(Trim(Keccak256(Pad32(0))), NatBytes(i))),
                    PadTo(vals.items[i + 1].addr, HashLength))

C2_Witness ==
    /\ Done
    /\ NumVals = 2
    /\ vals.items[1].addr # vals.items[2].addr
    /\ Holds(BytesToHash(AddMag(Trim(Keccak256(Pad32(0))), <<1>>)),
             PadTo(vals.items[2].addr, HashLength))

\* C3: when PredeployStakingSC has returned for a list of pairwise distinct
\* addresses, then for every position i with address A the map holds 1 at
\* getAddressMapping(A, 1), DefaultStakedBalance at getAddressMapping(A, 2) and
\* i at getAddressMapping(A, 3), each as a 32-byte big-endian value.
C3_AddressMappings ==
    (Done /\ ~HasDuplicate) =>
        \A i \in 0..(NumVals - 1) :
            LET A == vals.items[i + 1].addr
            IN  /\ Holds(getAddressMapping(A, 1), Pad32(1))
                /\ Holds(getAddressMapping(A, 2), PadTo(StakedBalanceBytes, HashLength))
                /\ Holds(getAddressMapping(A, 3), Pad32(i))

C3_Witness ==
    /\ Done
    /\ ~HasDuplicate
    /\ NumVals = 2
    /\ Holds(getAddressMapping(vals.items[2].addr, 3), Pad32(1))

\* C4: when the list passed to PredeployStakingSC has two entries that derive
\* the same storage key (two entries with one address), the build aborts with
\* an error and returns no account.
C4_DuplicateAborts ==
    (Done /\ HasDuplicate) => (err # "nil" /\ ~account.set)

\* C5: for any uint64 MinValidatorCount and MaxValidatorCount the returned map
\* holds exactly MinValidatorCount at key pad32(5) and exactly
\* MaxValidatorCount at key pad32(6), as 32-byte big-endian unsigned integers.
C5_CountsStoredExactly ==
    Done =>
        /\ Holds(Pad32(5), PadTo(params.MinValidatorCount, HashLength))
        /\ Holds(Pad32(6), PadTo(params.MaxValidatorCount, HashLength))

\* C6: after setBytesToStorage with a payload of length L >= 32 the base key
\* holds the 32-byte big-endian integer 2*L + 1, for every L.
C6_LongFlag ==
    (Called /\ Len(data) >= 32) =>
        /\ BytesToHash(baseIndexBytes) \in DOMAIN storageMap
        /\ storageMap[BytesToHash(baseIndexBytes)] = Pad32(2 * Len(data) + 1)

\* C7: starting from an empty map, for a payload of length 0, 30, 31, 32, 33,
\* 64 or 65, decoding by the slot rule after setBytesToStorage gives back
\* exactly the payload.
C7_RoundTrip ==
    (Called /\ initialMap = EmptyMap /\ Len(data) \in {0, 30, 31, 32, 33, 64, 65}) =>
        Decode(storageMap, baseIndexBytes) = data

C7_Witness ==
    /\ Called
    /\ initialMap = EmptyMap
    /\ Len(data) = 65
    /\ Decode(storageMap, baseIndexBytes) = data

\* C8: for every initial map, base key and payload of length L >= 32, after
\* setBytesToStorage each data slot keccak(base key) + k, k in 0..ceil(L/32)-1,
\* holds exactly the payload bytes 32k..min(32k+31, L-1) and zero in every
\* remaining position of the last slot: what the map held there before does
\* not survive.
C8_DataSlotsOverwritten ==
    (Called /\ Len(data) >= 32) =>
        \A k \in 0..(NumSlots(Len(data)) - 1) :
            /\ DataSlotKey(baseIndexBytes, k) \in DOMAIN storageMap
            /\ storageMap[DataSlotKey(baseIndexBytes, k)] = ExpectedSlot(data, k)

\* C9: setBytesToStorage is idempotent: the map after a second call with the
\* same base key and payload is the map after the first call.
C9_Idempotent ==
    (prog = "setBytesToStorage" /\ calls >= 2) => storageMap = onceMap

C9_Witness ==
    /\ prog = "setBytesToStorage"
    /\ calls = 2
    /\ Len(data) >= 32
    /\ initialMap # EmptyMap
    /\ storageMap = onceMap
    /\ storageMap # initialMap

\* C10: getIndexWithOffset obeys the successor law over the whole uint64
\* range: the value of getIndexWithOffset(H, 0) is H, and for 0 < n <= 2^64-1
\* the value of getIndexWithOffset(H, n) is the value of
\* getIndexWithOffset(H, n-1) plus 1.
C10_SuccessorLaw ==
    (prog = "getIndexWithOffset" /\ pc = "called") =>
        /\ offset = <<>> => Trim(result) = Trim(keccakHash)
        /\ steps >= 1 => Trim(result) = AddMag(Trim(prevResult), <<1>>)

\* C11: getAddressMapping is injective on the inputs it accepts: for two
\* (20-byte address, int64 slot) pairs that differ in the address or in the
\* slot number, the 64 bytes it hashes differ, and so do the keys it returns
\* under a collision-free hash.
C11_Injective ==
    (prog = "getAddressMapping" /\ pc = "compared"
        /\ (mapAddress # otherAddress \/ mapSlot # otherSlot)) =>
        /\ mapSlice # otherSlice
        /\ mapKey # otherKey

\* the part of C11 the code keeps: pairs that differ in the address or in the
\* magnitude of the slot number hash different bytes and get different keys
MappingInjectiveOnMagnitude ==
    (prog = "getAddressMapping" /\ pc = "compared"
        /\ (mapAddress # otherAddress
             \/ Int64OfInt(mapSlot).abs # Int64OfInt(otherSlot).abs)) =>
        /\ mapSlice # otherSlice
        /\ mapKey # otherKey

\* the keys of the BLS public key entry of address A: the base key
\* getAddressMapping(A, 7) and the data slots keccak(base key) + k
BLSEntryKeys(A) ==
    {BytesToHash(getAddressMapping(A, 7))}
    \cup {DataSlotKey(getAddressMapping(A, 7), k) : k \in 0..4}

\* the returned map holds the setBytesToStorage encoding of key under the
\* base key getAddressMapping(A, 7)
HoldsBLSKey(A, key) ==
    LET base == getAddressMapping(A, 7)
        encoding == setBytesToStorage(EmptyMap, base, key)
    IN  /\ \A k \in DOMAIN encoding : Holds(k, encoding[k])
        /\ Decode(account.Storage, base) = key

\* C12: when PredeployStakingSC has returned, the BLS public key entry is
\* written only for validators that carry a BLS public key: for a validator at
\* address A without one the map has no entry at getAddressMapping(A, 7) nor
\* at any data slot keccak(getAddressMapping(A, 7)) + k; for a validator with
\* one the entry at getAddressMapping(A, 7) is the setBytesToStorage encoding
\* of its key.
C12_BLSKeyOnlyWhenCarried ==
    Done =>
        \A i \in 1..NumVals :
            LET validator == vals.items[i]
            IN  IF validator.bls
                THEN HoldsBLSKey(validator.addr, validator.key)
                ELSE BLSEntryKeys(validator.addr) \cap DOMAIN account.Storage = {}

\* the part of C12 the code keeps: the same statement for lists of pairwise
\* distinct addresses
BLSKeyOnlyWhenCarriedDistinct ==
    (Done /\ ~HasDuplicate) =>
        \A i \in 1..NumVals :
            LET validator == vals.items[i]
            IN  IF validator.bls
                THEN HoldsBLSKey(validator.addr, validator.key)
                ELSE BLSEntryKeys(validator.addr) \cap DOMAIN account.Storage = {}

\* C13: when PredeployStakingSC is called with zero validators (a nil list or
\* an empty list), no error is returned, the returned map holds 0 at key
\* pad32(0) and 0 at key pad32(4), its key set is exactly {pad32(0), pad32(4),
\* pad32(5), pad32(6)} (no mapping entry, no array element), and the account
\* Balance is 0.
C13_ZeroValidators ==
    (Done /\ NumVals = 0) =>
        /\ err = "nil"
        /\ account.set
        /\ Holds(Pad32(0), Pad32(0))
        /\ Holds(Pad32(4), Pad32(0))
        /\ DOMAIN account.Storage = {Pad32(0), Pad32(4), Pad32(5), Pad32(6)}
        /\ account.Balance = [neg |-> FALSE, abs |-> <<>>]

C13_Witness ==
    /\ Done
    /\ ~vals.isNil
    /\ vals.items = <<>>
    /\ account.set
    /\ Cardinality(DOMAIN account.Storage) = 4
    /\ account.Storage[Pad32(0)] = ZeroHash

====
